---- MODULE Spec2Model ----
(***************************************************************************)
(* Shunting-yard trace engine (src/utils/shuntingYard.ts, generateSteps)   *)
(* and the caller that installs its outcome (src/App.tsx, expression       *)
(* effect).  An expression is a sequence of one-character strings; token   *)
(* values are strings.  Zone positions and token indices are 0-based as in *)
(* the source; TLA+ sequences are 1-based.                                 *)
(***************************************************************************)
EXTENDS Integers, Sequences, FiniteSets, TLC

VARIABLES expression, mode, pc, tokens, i, operatorStack, outputQueue,
          objs, steps, thrown, result, error, history,
          variant, currentStep, isPlaying, quiet,
          response, loading, aiError, requests

\* the playback state of App (App.tsx:16-17, 294-295): variant tells which of
\* the two App components of App.tsx is mounted, quiet that the user has
\* made their last input
play == <<variant, currentStep, isPlaying, quiet>>

\* the state of GeminiAssistant (Controls.tsx:103-105) and the requests it
\* has sent that have not settled, each with the note whether stepIndex or
\* expression has changed since it was sent
panel == <<response, loading, aiError, requests>>

vars == <<expression, mode, pc, tokens, i, operatorStack, outputQueue,
          objs, steps, thrown, result, error, history, play, panel>>

(* ------------------------------ bounds --------------------------------- *)

MaxLen == 4

MaxCalls == 3

(* ------------------------- character classes --------------------------- *)

\* the characters of [a-zA-Z0-9.] that occur in the modelled inputs
OperandChars == {"A", "B", "C", "D", "E", "1", "."}

\* [+\-*/^()]
SymbolChars == {"+", "-", "*", "/", "^", "(", ")"}

OperatorChars == {"+", "-", "*", "/", "^"}

\* characters the regex does not match
OtherChars == {" ", "#"}

Modes == {"POSTFIX", "PREFIX"}

(* ------------------------------ inputs --------------------------------- *)

Alphabet == {"A", "1", "+", "^", "(", ")", " "}

ShortStrings == UNION {[1..n -> Alphabet] : n \in 0..MaxLen}

\* A o1 B o2 C, with and without one pair of parentheses
Chains ==
  UNION {{ <<"A", o1, "B", o2, "C">>,
           <<"(", "A", o1, "B", ")", o2, "C">>,
           <<"A", o1, "(", "B", o2, "C", ")">> } :
         o1 \in OperatorChars, o2 \in OperatorChars}

Examples ==
  { <<"A"," ","+"," ","B"," ","*"," ","C"," ","-"," ","("," ","D"," ","/"," ","E"," ",")">>,
    <<"A"," ","^"," ","B"," ","^"," ","C">>,
    <<"A"," ","-"," ","B"," ","-"," ","C">>,
    <<"("," ","A"," ","+"," ","B">>,
    <<"A"," ","+"," ","B"," ",")">>,
    <<"(","A","+","B",")","*","(","C","-","D",")">>,
    <<"A","*","B","+","C","*","D">>,
    <<"A","+","B","*","C","^","D","^","E">>,
    <<"A","^","B","*","C","+","D">>,
    <<"(","(","A","-","B",")","/","C",")","^","D">>,
    <<"A","B","#","+","1",".","1","/","C">>,
    <<"A","+","(","B","*","C">>,
    <<"A","*","B",")","+","(","C">>,
    <<"A","+","(","B","+","C","^","D",")">>,
    <<"#"," ","#">> }

Inputs == ShortStrings \cup Chains \cup Examples

(* ----------------------------- tokenizer ------------------------------- *)

\* getPriority without the * and / line
getPriorityNoMul(char) ==
  IF char = "^" THEN 3
  ELSE IF char = "+" \/ char = "-" THEN 1
  ELSE 0

\* shuntingYard.ts:3-8
getPriority(char) ==
  IF char = "^" THEN 3
  ELSE IF char = "*" \/ char = "/" THEN 2
  ELSE IF char = "+" \/ char = "-" THEN 1
  ELSE 0

\* every operator taken as left associative
isLeftAssociativeAll(char) == TRUE

\* shuntingYard.ts:10-12
isLeftAssociative(char) == char # "^"

RECURSIVE Scan(_, _, _, _)
\* global match of /([a-zA-Z0-9.]+|[+\-*/^()])/g : s the input, p the next
\* character, cur the operand run being extended, acc the matches so far
Scan(s, p, cur, acc) ==
  IF p > Len(s)
    THEN IF cur = "" THEN acc ELSE Append(acc, cur)
    ELSE IF s[p] \in OperandChars
      THEN Scan(s, p + 1, cur \o s[p], acc)
      ELSE LET flushed == IF cur = "" THEN acc ELSE Append(acc, cur)
           IN  IF s[p] \in SymbolChars
                 THEN Scan(s, p + 1, "", Append(flushed, s[p]))
                 ELSE Scan(s, p + 1, "", flushed)

\* the regex without the +: every operand character a match of its own
MatchSingle(s) == SelectSeq(s, LAMBDA c : c \in OperandChars \cup SymbolChars)

\* expression.split(''): every character a match
MatchSplit(s) == s

\* expression.match(regex) || []
Match(s) == Scan(s, 1, "", <<>>)

Reverse(s) == [k \in 1..Len(s) |-> s[Len(s) + 1 - k]]

\* the map callback without the two parenthesis lines
SwapParenNone(t) == t

\* shuntingYard.ts:22-26
SwapParen(t) == IF t = "(" THEN ")" ELSE IF t = ")" THEN "(" ELSE t

\* shuntingYard.ts:17-27
rawTokens(expr, m) ==
  LET raw == Match(expr)
  IN  IF m = "PREFIX"
        THEN [k \in 1..Len(raw) |-> SwapParen(Reverse(raw)[k])]
        ELSE raw

TokenType(str) ==
  IF str \in OperatorChars THEN "OPERATOR"
  ELSE IF str = "(" THEN "LEFT_PAREN"
  ELSE IF str = ")" THEN "RIGHT_PAREN"
  ELSE "OPERAND"

\* `t-${str}`: an id built from the literal alone
TokenIdLiteral(idx, str) == <<0, str>>

\* an id numbered by a counter that outlives the call
TokenIdCounter(idx, str) == <<idx + Len(history), str>>

\* `t-${idx}-${str}`
TokenId(idx, str) == <<idx, str>>

\* shuntingYard.ts:30-42
MakeTokens(raw) ==
  [k \in 1..Len(raw) |->
     [id |-> TokenId(k - 1, raw[k]), value |-> raw[k],
      type |-> TokenType(raw[k]), priority |-> getPriority(raw[k])]]

(* --------------------------- snapshot store ---------------------------- *)

\* activeTokenId: null
Null == <<>>

NoResult == [tokens |-> <<>>, steps |-> <<>>, mode |-> "none"]

\* objs[LiveRef] is the object bound to currentTokenStates
LiveRef == 1

\* shuntingYard.ts:46-49
InitialStates(toks) ==
  [id \in {toks[k].id : k \in 1..Len(toks)} |->
     [location |-> "INPUT",
      index |-> (CHOOSE k \in 1..Len(toks) : toks[k].id = id) - 1]]

\* JSON.parse(JSON.stringify(currentTokenStates)): a new object holding
\* the location and index of every key
JSONClone(m) ==
  [id \in DOMAIN m |-> [location |-> m[id].location, index |-> m[id].index]]

\* tokenStates: currentTokenStates, the live object itself
SnapshotAlias(o) == LiveRef

\* the object a snapshot's tokenStates field refers to: the clone is a new
\* object
SnapshotRef(o) == Len(o) + 1

recordObjs(o) ==
  IF SnapshotRef(o) > Len(o) THEN Append(o, JSONClone(o[LiveRef])) ELSE o

\* stepIndex: steps.length + 1, counted from 1
recordStepFromOne(s, o, desc, explanation, activeId) ==
  Append(s, [stepIndex |-> Len(s) + 1, description |-> desc,
             detailedExplanation |-> explanation,
             tokenStates |-> SnapshotRef(o), activeTokenId |-> activeId])

\* shuntingYard.ts:51-59
recordStep(s, o, desc, explanation, activeId) ==
  Append(s, [stepIndex |-> Len(s), description |-> desc,
             detailedExplanation |-> explanation,
             tokenStates |-> SnapshotRef(o), activeTokenId |-> activeId])

\* a write that also renumbers the tokens left in INPUT from 0
SetStateRenumberInput(o, id, loc, idx) ==
  [o EXCEPT ![LiveRef] =
     [t \in DOMAIN @ |->
        IF t = id THEN [location |-> loc, index |-> idx]
        ELSE IF @[t].location = "INPUT"
          THEN [@[t] EXCEPT !.index =
                  Cardinality({u \in DOMAIN o[LiveRef] \ {id} :
                                 /\ o[LiveRef][u].location = "INPUT"
                                 /\ o[LiveRef][u].index < o[LiveRef][t].index})]
          ELSE @[t]]]

\* currentTokenStates[id] = { location, index }
SetState(o, id, loc, idx) ==
  [o EXCEPT ![LiveRef] =
     [@ EXCEPT ![id] = [location |-> loc, index |-> idx]]]

\* operatorStack.forEach((t, idx) => currentTokenStates[t.id].index = idx)
Renumber(o, stack) ==
  [o EXCEPT ![LiveRef] =
     [id \in DOMAIN @ |->
        IF \E k \in 1..Len(stack) : stack[k].id = id
          THEN [@[id] EXCEPT !.index =
                  (CHOOSE k \in 1..Len(stack) : stack[k].id = id) - 1]
          ELSE @[id]]]

Top(stack) == stack[Len(stack)]

Pop(stack) == SubSeq(stack, 1, Len(stack) - 1)

(* ------------------------------- state --------------------------------- *)

InitWith(exprs) ==
  /\ expression \in exprs
  /\ mode \in Modes
  /\ pc = "idle"
  /\ tokens = <<>>
  /\ i = 0
  /\ operatorStack = <<>>
  /\ outputQueue = <<>>
  /\ objs = <<>>
  /\ steps = <<>>
  /\ thrown = ""
  /\ result = NoResult
  /\ error = ""
  /\ history = <<>>
  /\ variant = 1
  /\ currentStep = 0
  /\ isPlaying = FALSE
  /\ quiet = FALSE
  /\ response = ""
  /\ loading = FALSE
  /\ aiError = ""
  /\ requests = <<>>

Init == InitWith(Inputs)

\* the token of the current loop iteration
token == tokens[i]

\* shuntingYard.ts:14-68: tokenize, build the tokens and the location map,
\* record the Start step
Call ==
  /\ pc = "idle"
  /\ \E toks \in {MakeTokens(rawTokens(expression, mode))} :
     \E o0 \in {<<InitialStates(toks)>>} :
         /\ tokens' = toks
         /\ steps' = IF mode = "PREFIX"
                       THEN recordStep(<<>>, o0, "Start (Prefix Mode)",
                              "Reversed input and swapped parentheses. Reading from Right to Left.",
                              Null)
                       ELSE recordStep(<<>>, o0, "Start",
                              "Ready to process the expression.", Null)
         /\ objs' = recordObjs(o0)
  /\ operatorStack' = <<>>
  /\ outputQueue' = <<>>
  /\ i' = 0
  /\ thrown' = ""
  /\ pc' = "loop"
  /\ UNCHANGED <<expression, mode, result, error, history, play, panel>>

\* the loop header without its recordStep call
ReadSilent ==
  /\ pc = "loop"
  /\ i < Len(tokens)
  /\ i' = i + 1
  /\ pc' = "token"
  /\ UNCHANGED <<expression, mode, tokens, operatorStack, outputQueue,
                 objs, steps, thrown, result, error, history, play, panel>>

\* shuntingYard.ts:71-76
Read ==
  /\ pc = "loop"
  /\ i < Len(tokens)
  /\ i' = i + 1
  /\ steps' = recordStep(steps, objs, "Read " \o tokens[i + 1].value,
                "Processing token '" \o tokens[i + 1].value \o "'.",
                tokens[i + 1].id)
  /\ objs' = recordObjs(objs)
  /\ pc' = "token"
  /\ UNCHANGED <<expression, mode, tokens, operatorStack, outputQueue,
                 thrown, result, error, history, play, panel>>

\* the operand put at the front of the output queue (unshift)
MoveOperandFront ==
  /\ pc = "token"
  /\ token.type = "OPERAND"
  /\ LET q == <<token>> \o outputQueue
         o == Renumber(SetState(objs, token.id, "OUTPUT", 0), q)
     IN  /\ outputQueue' = q
         /\ steps' = recordStep(steps, o, "Move " \o token.value \o " to Output",
                       "Operands go directly to the result.", token.id)
         /\ objs' = recordObjs(o)
  /\ pc' = "loop"
  /\ UNCHANGED <<expression, mode, tokens, i, operatorStack,
                 thrown, result, error, history, play, panel>>

\* the operand placed one position past the end of the output queue
MoveOperandOffByOne ==
  /\ pc = "token"
  /\ token.type = "OPERAND"
  /\ LET q == Append(outputQueue, token)
         o == SetState(objs, token.id, "OUTPUT", Len(q))
     IN  /\ outputQueue' = q
         /\ steps' = recordStep(steps, o, "Move " \o token.value \o " to Output",
                       "Operands go directly to the result.", token.id)
         /\ objs' = recordObjs(o)
  /\ pc' = "loop"
  /\ UNCHANGED <<expression, mode, tokens, i, operatorStack,
                 thrown, result, error, history, play, panel>>

\* shuntingYard.ts:78-85
MoveOperand ==
  /\ pc = "token"
  /\ token.type = "OPERAND"
  /\ LET q == Append(outputQueue, token)
         o == SetState(objs, token.id, "OUTPUT", Len(q) - 1)
     IN  /\ outputQueue' = q
         /\ steps' = recordStep(steps, o, "Move " \o token.value \o " to Output",
                       "Operands go directly to the result.", token.id)
         /\ objs' = recordObjs(o)
  /\ pc' = "loop"
  /\ UNCHANGED <<expression, mode, tokens, i, operatorStack,
                 thrown, result, error, history, play, panel>>

\* the left parenthesis pushed without a recordStep call
PushLeftParenSilent ==
  /\ pc = "token"
  /\ token.type = "LEFT_PAREN"
  /\ LET st == Append(operatorStack, token)
     IN  /\ operatorStack' = st
         /\ objs' = SetState(objs, token.id, "STACK", Len(st) - 1)
  /\ pc' = "loop"
  /\ UNCHANGED <<expression, mode, tokens, i, outputQueue, steps,
                 thrown, result, error, history, play, panel>>

\* shuntingYard.ts:86-93
PushLeftParen ==
  /\ pc = "token"
  /\ token.type = "LEFT_PAREN"
  /\ LET st == Append(operatorStack, token)
         o == SetState(objs, token.id, "STACK", Len(st) - 1)
     IN  /\ operatorStack' = st
         /\ steps' = recordStep(steps, o, "Push ( to Stack",
                       "Parentheses wait in the stack until closed.", token.id)
         /\ objs' = recordObjs(o)
  /\ pc' = "loop"
  /\ UNCHANGED <<expression, mode, tokens, i, outputQueue,
                 thrown, result, error, history, play, panel>>

\* the popped token keeps the index it had in the stack
PopToOutputStale(o, stack, queue) ==
  Renumber(SetState(o, Top(stack).id, "OUTPUT", Len(stack) - 1), Pop(stack))

\* pop + move to OUTPUT + renumber (shuntingYard.ts:110-113, 149-152, 181-183)
PopToOutput(o, stack, queue) ==
  Renumber(SetState(o, Top(stack).id, "OUTPUT", Len(queue)), Pop(stack))

\* the discard step without operatorStack.pop()
RightParenDiscardKeep ==
  /\ pc = "token"
  /\ token.type = "RIGHT_PAREN"
  /\ Len(operatorStack) > 0
  /\ Top(operatorStack).type = "LEFT_PAREN"
  /\ LET o == SetState(SetState(objs, Top(operatorStack).id, "DISCARDED", 0),
                       token.id, "DISCARDED", 0)
     IN  /\ steps' = recordStep(steps, o, "Discard Parentheses",
                       "Matching pair found. Both are discarded.", token.id)
         /\ objs' = recordObjs(o)
  /\ pc' = "loop"
  /\ UNCHANGED <<expression, mode, tokens, i, operatorStack, outputQueue,
                 thrown, result, error, history, play, panel>>

\* the Discard step recorded with the left parenthesis as the active token
RightParenDiscardActiveLeft ==
  /\ pc = "token"
  /\ token.type = "RIGHT_PAREN"
  /\ Len(operatorStack) > 0
  /\ Top(operatorStack).type = "LEFT_PAREN"
  /\ LET o == SetState(SetState(objs, Top(operatorStack).id, "DISCARDED", 0),
                       token.id, "DISCARDED", 0)
     IN  /\ steps' = recordStep(steps, o, "Discard Parentheses",
                       "Matching pair found. Both are discarded.",
                       Top(operatorStack).id)
         /\ objs' = recordObjs(o)
  /\ operatorStack' = Pop(operatorStack)
  /\ pc' = "loop"
  /\ UNCHANGED <<expression, mode, tokens, i, outputQueue,
                 thrown, result, error, history, play, panel>>

\* shuntingYard.ts:96-108
RightParenDiscard ==
  /\ pc = "token"
  /\ token.type = "RIGHT_PAREN"
  /\ Len(operatorStack) > 0
  /\ Top(operatorStack).type = "LEFT_PAREN"
  /\ LET o == SetState(SetState(objs, Top(operatorStack).id, "DISCARDED", 0),
                       token.id, "DISCARDED", 0)
     IN  /\ steps' = recordStep(steps, o, "Discard Parentheses",
                       "Matching pair found. Both are discarded.", token.id)
         /\ objs' = recordObjs(o)
  /\ operatorStack' = Pop(operatorStack)
  /\ pc' = "loop"
  /\ UNCHANGED <<expression, mode, tokens, i, outputQueue,
                 thrown, result, error, history, play, panel>>

\* the right-parenthesis loop popping to the output whatever is on top
RightParenPopAll ==
  /\ pc = "token"
  /\ token.type = "RIGHT_PAREN"
  /\ Len(operatorStack) > 0
  /\ LET popped == Top(operatorStack)
         o == PopToOutput(objs, operatorStack, outputQueue)
     IN  /\ steps' = recordStep(steps, o, "Pop " \o popped.value \o " to Output",
                       "Inside parentheses, pop '" \o popped.value \o "' to output.",
                       popped.id)
         /\ objs' = recordObjs(o)
         /\ outputQueue' = Append(outputQueue, popped)
  /\ operatorStack' = Pop(operatorStack)
  /\ UNCHANGED <<expression, mode, pc, tokens, i,
                 thrown, result, error, history, play, panel>>

\* shuntingYard.ts:96-97, 109-120
RightParenPop ==
  /\ pc = "token"
  /\ token.type = "RIGHT_PAREN"
  /\ Len(operatorStack) > 0
  /\ Top(operatorStack).type # "LEFT_PAREN"
  /\ LET popped == Top(operatorStack)
         o == PopToOutput(objs, operatorStack, outputQueue)
     IN  /\ steps' = recordStep(steps, o, "Pop " \o popped.value \o " to Output",
                       "Inside parentheses, pop '" \o popped.value \o "' to output.",
                       popped.id)
         /\ objs' = recordObjs(o)
         /\ outputQueue' = Append(outputQueue, popped)
  /\ operatorStack' = Pop(operatorStack)
  /\ UNCHANGED <<expression, mode, pc, tokens, i,
                 thrown, result, error, history, play, panel>>

\* shuntingYard.ts:96, 122-124
RightParenMissing ==
  /\ pc = "token"
  /\ token.type = "RIGHT_PAREN"
  /\ Len(operatorStack) = 0
  /\ thrown' = "Mismatched Parentheses: Missing '('"
  /\ pc' = "threw"
  /\ UNCHANGED <<expression, mode, tokens, i, operatorStack, outputQueue,
                 objs, steps, result, error, history, play, panel>>

\* shouldPop popping on every tie
shouldPopTieAny(m, top, tok) == top.priority >= tok.priority

\* shouldPop without the equal-priority case
shouldPopStrict(m, top, tok) == top.priority > tok.priority

\* shouldPop with the POSTFIX tie-break in both modes
shouldPopSameTie(m, top, tok) ==
  \/ top.priority > tok.priority
  \/ top.priority = tok.priority /\ isLeftAssociative(tok.value)

\* the operator loop never popping
shouldPopNever(m, top, tok) == FALSE

\* shuntingYard.ts:132-146
shouldPop(m, top, tok) ==
  IF m = "POSTFIX"
    THEN \/ top.priority > tok.priority
         \/ top.priority = tok.priority /\ isLeftAssociative(tok.value)
    ELSE \/ top.priority > tok.priority
         \/ top.priority = tok.priority /\ ~isLeftAssociative(tok.value)

\* shuntingYard.ts:126-129, 148: the while loop runs another iteration
OperatorLoops(m, stack, tok) ==
  /\ Len(stack) > 0
  /\ Top(stack).type # "LEFT_PAREN"
  /\ shouldPop(m, Top(stack), tok)

\* the operator loop popping without recording the pop
OperatorPopSilent ==
  /\ pc = "token"
  /\ token.type = "OPERATOR"
  /\ OperatorLoops(mode, operatorStack, token)
  /\ objs' = PopToOutput(objs, operatorStack, outputQueue)
  /\ outputQueue' = Append(outputQueue, Top(operatorStack))
  /\ operatorStack' = Pop(operatorStack)
  /\ UNCHANGED <<expression, mode, pc, tokens, i, steps,
                 thrown, result, error, history, play, panel>>

\* the operator loop reading the top of the stack without removing it
OperatorPopPeek ==
  /\ pc = "token"
  /\ token.type = "OPERATOR"
  /\ OperatorLoops(mode, operatorStack, token)
  /\ LET popped == Top(operatorStack)
         o == SetState(objs, popped.id, "OUTPUT", Len(outputQueue))
     IN  /\ steps' = recordStep(steps, o, "Pop " \o popped.value \o " to Output",
                       "'" \o popped.value \o "' has priority/associativity to precede '"
                         \o token.value \o "'.",
                       popped.id)
         /\ objs' = recordObjs(o)
         /\ outputQueue' = Append(outputQueue, popped)
  /\ UNCHANGED <<expression, mode, pc, tokens, i, operatorStack,
                 thrown, result, error, history, play, panel>>

\* shuntingYard.ts:126-158
OperatorPop ==
  /\ pc = "token"
  /\ token.type = "OPERATOR"
  /\ OperatorLoops(mode, operatorStack, token)
  /\ LET popped == Top(operatorStack)
         o == PopToOutput(objs, operatorStack, outputQueue)
     IN  /\ steps' = recordStep(steps, o, "Pop " \o popped.value \o " to Output",
                       "'" \o popped.value \o "' has priority/associativity to precede '"
                         \o token.value \o "'.",
                       popped.id)
         /\ objs' = recordObjs(o)
         /\ outputQueue' = Append(outputQueue, popped)
  /\ operatorStack' = Pop(operatorStack)
  /\ UNCHANGED <<expression, mode, pc, tokens, i,
                 thrown, result, error, history, play, panel>>

\* shuntingYard.ts:126-129, 159-172
OperatorPush ==
  /\ pc = "token"
  /\ token.type = "OPERATOR"
  /\ ~OperatorLoops(mode, operatorStack, token)
  /\ LET st == Append(operatorStack, token)
         o == Renumber(SetState(objs, token.id, "STACK", Len(st) - 1), st)
     IN  /\ operatorStack' = st
         /\ steps' = recordStep(steps, o, "Push " \o token.value \o " to Stack",
                       "Push '" \o token.value \o "' to stack.", token.id)
         /\ objs' = recordObjs(o)
  /\ pc' = "loop"
  /\ UNCHANGED <<expression, mode, tokens, i, outputQueue,
                 thrown, result, error, history, play, panel>>

\* the drain loop taking the bottom of the stack (shift) instead of the top
DrainPopBottom ==
  /\ pc = "loop"
  /\ i = Len(tokens)
  /\ Len(operatorStack) > 0
  /\ Top(operatorStack).type # "LEFT_PAREN"
  /\ LET popped == Head(operatorStack)
         o == Renumber(SetState(objs, popped.id, "OUTPUT", Len(outputQueue)),
                       Tail(operatorStack))
     IN  /\ steps' = recordStep(steps, o, "Pop " \o popped.value \o " to Output",
                       "Expression end. Pop remaining '" \o popped.value \o "'.",
                       popped.id)
         /\ objs' = recordObjs(o)
         /\ outputQueue' = Append(outputQueue, popped)
  /\ operatorStack' = Tail(operatorStack)
  /\ UNCHANGED <<expression, mode, pc, tokens, i,
                 thrown, result, error, history, play, panel>>

\* the drain loop without the LEFT_PAREN test
DrainPopAny ==
  /\ pc = "loop"
  /\ i = Len(tokens)
  /\ Len(operatorStack) > 0
  /\ LET popped == Top(operatorStack)
         o == PopToOutput(objs, operatorStack, outputQueue)
     IN  /\ steps' = recordStep(steps, o, "Pop " \o popped.value \o " to Output",
                       "Expression end. Pop remaining '" \o popped.value \o "'.",
                       popped.id)
         /\ objs' = recordObjs(o)
         /\ outputQueue' = Append(outputQueue, popped)
  /\ operatorStack' = Pop(operatorStack)
  /\ UNCHANGED <<expression, mode, pc, tokens, i,
                 thrown, result, error, history, play, panel>>

\* shuntingYard.ts:176-189
DrainPop ==
  /\ pc = "loop"
  /\ i = Len(tokens)
  /\ Len(operatorStack) > 0
  /\ Top(operatorStack).type # "LEFT_PAREN"
  /\ LET popped == Top(operatorStack)
         o == PopToOutput(objs, operatorStack, outputQueue)
     IN  /\ steps' = recordStep(steps, o, "Pop " \o popped.value \o " to Output",
                       "Expression end. Pop remaining '" \o popped.value \o "'.",
                       popped.id)
         /\ objs' = recordObjs(o)
         /\ outputQueue' = Append(outputQueue, popped)
  /\ operatorStack' = Pop(operatorStack)
  /\ UNCHANGED <<expression, mode, pc, tokens, i,
                 thrown, result, error, history, play, panel>>

\* shuntingYard.ts:176-180
DrainMissing ==
  /\ pc = "loop"
  /\ i = Len(tokens)
  /\ Len(operatorStack) > 0
  /\ Top(operatorStack).type = "LEFT_PAREN"
  /\ operatorStack' = Pop(operatorStack)
  /\ thrown' = "Mismatched Parentheses: Missing ')'"
  /\ pc' = "threw"
  /\ UNCHANGED <<expression, mode, tokens, i, outputQueue,
                 objs, steps, result, error, history, play, panel>>

\* Finished recorded without draining the stack
FinishedUndrained ==
  /\ pc = "loop"
  /\ i = Len(tokens)
  /\ steps' = recordStep(steps, objs, "Finished", "Conversion complete.", Null)
  /\ objs' = recordObjs(objs)
  /\ pc' = "returned"
  /\ UNCHANGED <<expression, mode, tokens, i, operatorStack, outputQueue,
                 thrown, result, error, history, play, panel>>

\* shuntingYard.ts:176, 191-193
Finished ==
  /\ pc = "loop"
  /\ i = Len(tokens)
  /\ Len(operatorStack) = 0
  /\ steps' = recordStep(steps, objs, "Finished", "Conversion complete.", Null)
  /\ objs' = recordObjs(objs)
  /\ pc' = "returned"
  /\ UNCHANGED <<expression, mode, tokens, i, operatorStack, outputQueue,
                 thrown, result, error, history, play, panel>>

\* the value of `return { tokens, steps, mode }`
Returned(toks, s, m) == [tokens |-> toks, steps |-> s, mode |-> m]

\* a catch block that installs what had been built so far
CaughtPartial(toks, s, m) == Returned(toks, s, m)

\* what the caller's catch block installs as result: setResult(null)
Caught(toks, s, m) == NoResult

\* Controls.tsx:147-152: the effect of GeminiAssistant on [stepIndex,
\* expression], run in the commit in which one of them changed.  It cancels
\* no request; a request still waiting is from then on marked as made for
\* props that have changed.
PanelEffect(changed) ==
  IF changed
    THEN /\ response' = ""
         /\ aiError' = ""
         /\ loading' = FALSE
         /\ requests' = [k \in DOMAIN requests |-> [stale |-> TRUE]]
    ELSE UNCHANGED <<response, aiError, loading, requests>>

\* App.tsx:30-34, 303-306
AppSetResult ==
  /\ pc = "returned"
  /\ result' = Returned(tokens, steps, mode)
  /\ error' = ""
  /\ currentStep' = 0
  /\ isPlaying' = FALSE
  /\ PanelEffect(currentStep # 0)
  /\ pc' = "done"
  /\ UNCHANGED <<expression, mode, tokens, i, operatorStack, outputQueue,
                 objs, steps, thrown, history, variant, quiet>>

\* App.tsx:35-38
AppCatch ==
  /\ pc = "threw"
  /\ variant = 1
  /\ result' = Caught(tokens, steps, mode)
  /\ error' = IF thrown # "" THEN thrown ELSE "Invalid Expression"
  /\ pc' = "done"
  /\ UNCHANGED <<expression, mode, tokens, i, operatorStack, outputQueue,
                 objs, steps, thrown, history, play, panel>>

Engine ==
  \/ Call
  \/ Read
  \/ MoveOperand
  \/ PushLeftParen
  \/ RightParenDiscard
  \/ RightParenPop
  \/ RightParenMissing
  \/ OperatorPop
  \/ OperatorPush
  \/ DrainPop
  \/ DrainMissing
  \/ Finished

Next ==
  \/ Engine
  \/ AppSetResult
  \/ AppCatch

Spec == Init /\ [][Next]_vars

(* ------------------------- reading a snapshot -------------------------- *)

\* steps[k].tokenStates, followed to the object it refers to
StatesOf(o, step) == o[step.tokenStates]

RECURSIVE SortByIndex(_, _)
\* Array.prototype.sort((a, b) => states[a.id].index - states[b.id].index):
\* stable, ascending
SortByIndex(ts, st) ==
  IF Len(ts) <= 1 THEN ts
  ELSE LET last == ts[Len(ts)]
           init == SortByIndex(SubSeq(ts, 1, Len(ts) - 1), st)
           n == Cardinality({k \in 1..Len(init) :
                               st[init[k].id].index <= st[last.id].index})
       IN  SubSeq(init, 1, n) \o <<last>> \o SubSeq(init, n + 1, Len(init))

\* App.tsx:83-85: result.tokens.filter(t => states[t.id]?.location === zone)
ZoneTokens(toks, st, zone) ==
  SelectSeq(toks, LAMBDA t : t.id \in DOMAIN st /\ st[t.id].location = zone)

\* App.tsx:85, 89, 92: outputTokens sorted by index, mapped to their values
OutputValues(toks, st) ==
  LET sorted == SortByIndex(ZoneTokens(toks, st, "OUTPUT"), st)
  IN  [k \in 1..Len(sorted) |-> sorted[k].value]

\* the last step of the installed result
FinalStates == StatesOf(objs, result.steps[Len(result.steps)])

FinalOutput == OutputValues(result.tokens, FinalStates)

Succeeded == pc = "done" /\ result # NoResult

Failed == pc = "done" /\ result = NoResult

(* ----------------------- reference conversion -------------------------- *)
(* A recursive-descent (precedence climbing) parser over the matches of    *)
(* the expression in their original order; it shares nothing with the      *)
(* engine's stack machine.  A parse is [ok, pos, post, pre].               *)

RefPrec(v) ==
  CASE v \in {"+", "-"} -> 1
    [] v \in {"*", "/"} -> 2
    [] v = "^" -> 3
    [] OTHER -> 0

RefRightAssoc(v) == v = "^"

RefIsOperand(v) == v \notin SymbolChars

RefFail == [ok |-> FALSE, pos |-> 0, post |-> <<>>, pre |-> <<>>]

RECURSIVE RefExpr(_, _, _), RefLoop(_, _, _), RefPrimary(_, _)

RefPrimary(ts, p) ==
  IF p > Len(ts) THEN RefFail
  ELSE IF RefIsOperand(ts[p])
    THEN [ok |-> TRUE, pos |-> p + 1, post |-> <<ts[p]>>, pre |-> <<ts[p]>>]
  ELSE IF ts[p] = "("
    THEN LET r == RefExpr(ts, p + 1, 1)
         IN  IF r.ok /\ r.pos <= Len(ts) /\ ts[r.pos] = ")"
               THEN [r EXCEPT !.pos = r.pos + 1]
               ELSE RefFail
  ELSE RefFail

RefLoop(ts, l, minPrec) ==
  IF l.pos <= Len(ts) /\ RefPrec(ts[l.pos]) >= minPrec /\ RefPrec(ts[l.pos]) > 0
    THEN LET op == ts[l.pos]
             r == RefExpr(ts, l.pos + 1,
                          IF RefRightAssoc(op) THEN RefPrec(op) ELSE RefPrec(op) + 1)
         IN  IF r.ok
               THEN RefLoop(ts, [ok |-> TRUE, pos |-> r.pos,
                                 post |-> l.post \o r.post \o <<op>>,
                                 pre |-> <<op>> \o l.pre \o r.pre], minPrec)
               ELSE RefFail
    ELSE l

RefExpr(ts, p, minPrec) ==
  LET l == RefPrimary(ts, p)
  IN  IF l.ok THEN RefLoop(ts, l, minPrec) ELSE RefFail

RefParse(ts) == RefExpr(ts, 1, 1)

WellFormed(expr) ==
  LET r == RefParse(Match(expr)) IN r.ok /\ r.pos = Len(Match(expr)) + 1

RefPostfix(expr) == RefParse(Match(expr)).post

RefPrefix(expr) == RefParse(Match(expr)).pre

ExampleMixed ==
  <<"A"," ","+"," ","B"," ","*"," ","C"," ","-"," ","("," ","D"," ","/"," ","E"," ",")">>

ExampleMinus == <<"A"," ","-"," ","B"," ","-"," ","C">>

ExamplePower == <<"A"," ","^"," ","B"," ","^"," ","C">>

(* -------------------------------- C1 ----------------------------------- *)

\* C1: in POSTFIX mode a run on a well-formed expression succeeds and the
\* values of the OUTPUT-zone tokens of its final step, ordered by position,
\* are the postfix form computed by the reference conversion; the example
\* "A + B * C - ( D / E )" gives A B C * + D E / -.
C1_PostfixEqualsReference ==
  (pc = "done" /\ mode = "POSTFIX") =>
    /\ WellFormed(expression) =>
         (Succeeded /\ FinalOutput = RefPostfix(expression))
    /\ expression = ExampleMixed =>
         (Succeeded /\ FinalOutput = <<"A", "B", "C", "*", "+", "D", "E", "/", "-">>)

C1_Witness ==
  /\ Succeeded
  /\ mode = "POSTFIX"
  /\ expression = ExampleMixed
  /\ Len(FinalOutput) = 9

(* -------------------------------- C2 ----------------------------------- *)

C3_OutputIsPrefix ==
  (pc = "done" /\ mode = "PREFIX" /\ WellFormed(expression)) =>
    (Succeeded /\ FinalOutput = RefPrefix(expression))

(* -------------------------------- C4 ----------------------------------- *)

Zones == {"INPUT", "STACK", "OUTPUT", "DISCARDED"}

IdsIn(st, zone) == {id \in DOMAIN st : st[id].location = zone}

PositionsIn(st, zone) == {st[id].index : id \in IdsIn(st, zone)}

\* the positions in the zone are 0..count-1, each used once
Contiguous(st, zone) ==
  /\ PositionsIn(st, zone) = 0..(Cardinality(IdsIn(st, zone)) - 1)
  /\ \A a, b \in IdsIn(st, zone) : st[a].index = st[b].index => a = b

\* C4 as stated: in every step of a successful run the positions of the
\* tokens of each of the four zones are exactly 0..count-1.
C4_AllZonesContiguous ==
  Succeeded =>
    \A k \in 1..Len(result.steps) : \A z \in Zones :
      Contiguous(StatesOf(objs, result.steps[k]), z)

\* C4 amended: in every step of a successful run the positions of the
\* STACK tokens and of the OUTPUT tokens are exactly 0..count-1 without
\* duplicates; the INPUT tokens keep their sequence indices, which are the
\* last count indices of the token sequence, and every DISCARDED token has
\* position 0.
C4_StackOutputContiguous ==
  Succeeded =>
    \A k \in 1..Len(result.steps) :
      LET st == StatesOf(objs, result.steps[k])
          n == Len(result.tokens)
      IN  /\ Contiguous(st, "STACK")
          /\ Contiguous(st, "OUTPUT")
          /\ PositionsIn(st, "INPUT") =
               (n - Cardinality(IdsIn(st, "INPUT")))..(n - 1)
          /\ PositionsIn(st, "DISCARDED") \subseteq {0}

C4_Witness ==
  /\ Succeeded
  /\ \E k \in 1..Len(result.steps) :
       LET st == StatesOf(objs, result.steps[k])
       IN  /\ Cardinality(IdsIn(st, "STACK")) >= 2
           /\ Cardinality(IdsIn(st, "OUTPUT")) >= 3
           /\ Cardinality(IdsIn(st, "DISCARDED")) = 2
           /\ Cardinality(IdsIn(st, "INPUT")) >= 1

(* -------------------------------- C5 ----------------------------------- *)

\* C5: in a successful run of either mode the first step has every token
\* in INPUT and the last step has no token in INPUT and none in STACK.
C5_FirstAllInputLastNone ==
  Succeeded =>
    LET first == StatesOf(objs, result.steps[1])
        last == StatesOf(objs, result.steps[Len(result.steps)])
        ids == {result.tokens[k].id : k \in 1..Len(result.tokens)}
    IN  /\ DOMAIN first = ids
        /\ \A id \in ids : first[id].location = "INPUT"
        /\ DOMAIN last = ids
        /\ \A id \in ids : last[id].location \notin {"INPUT", "STACK"}

C5_Witness ==
  /\ Succeeded
  /\ Len(result.tokens) >= 5
  /\ \E k \in 1..Len(result.steps) :
       Cardinality(IdsIn(StatesOf(objs, result.steps[k]), "STACK")) >= 2
  /\ IdsIn(FinalStates, "INPUT") = {}
  /\ IdsIn(FinalStates, "STACK") = {}

(* -------------------------------- C6 ----------------------------------- *)

MissingLeft == "Mismatched Parentheses: Missing '('"

MissingRight == "Mismatched Parentheses: Missing ')'"

\* number of "(" minus number of ")" among the first k elements of s
Depth(s, k) ==
  Cardinality({j \in 1..k : s[j] = "("}) - Cardinality({j \in 1..k : s[j] = ")"})

\* the outcome the parentheses of the expression call for: "" is success
ParenOutcome(s) ==
  IF \E k \in 1..Len(s) : Depth(s, k) < 0 THEN MissingLeft
  ELSE IF Depth(s, Len(s)) > 0 THEN MissingRight
  ELSE ""

ExampleUnclosed == <<"("," ","A"," ","+"," ","B">>

ExampleUnopened == <<"A"," ","+"," ","B"," ",")">>

\* C6: in POSTFIX mode a finished run has failed with the missing '('
\* message iff some prefix of the expression has more ')' than '(' (thrown
\* while the first such ')' is the current token), else with the missing
\* ')' message iff the expression has more '(' than ')', else it has
\* succeeded; "( A + B" fails with missing ')', "A + B )" with missing '('.
C6_OutcomeFromParentheses ==
  (mode = "POSTFIX" /\ pc \in {"returned", "threw", "done"}) =>
    /\ thrown = ParenOutcome(expression)
    /\ pc = "done" => error = ParenOutcome(expression)
    /\ pc = "done" => (result # NoResult <=> ParenOutcome(expression) = "")
    /\ thrown = MissingLeft =>
         /\ token.value = ")"
         /\ Depth([k \in 1..Len(tokens) |-> tokens[k].value], i) = -1
         /\ \A k \in 1..(i - 1) :
              Depth([j \in 1..Len(tokens) |-> tokens[j].value], k) >= 0
    /\ expression = ExampleUnclosed => thrown = MissingRight
    /\ expression = ExampleUnopened => thrown = MissingLeft

C6_Witness ==
  /\ mode = "POSTFIX"
  /\ pc = "done"
  /\ error = MissingLeft
  /\ \E k \in 1..Len(expression) : expression[k] = "("
  /\ Len(outputQueue) >= 2

(* -------------------------------- C7 ----------------------------------- *)

\* C7: a run that fails with a mismatched-parentheses error yields no
\* result: the caller holds no tokens, no steps and no mode of it, only the
\* message, although Read and Pop snapshots had been recorded before the
\* error was detected.
C7_FailureReturnsNothing ==
  thrown # "" =>
    /\ result = NoResult
    /\ result.tokens = <<>>
    /\ result.steps = <<>>
    /\ pc = "done" => error = thrown

C7_Witness ==
  /\ pc = "done"
  /\ thrown = MissingLeft
  /\ result = NoResult
  /\ \E k \in 1..Len(steps) : steps[k].description = "Pop + to Output"
  /\ \E k \in 1..Len(steps) : steps[k].description = "Read )"

(* -------------------------------- C8 ----------------------------------- *)

\* a recorded step with its tokenStates reference followed
StepView(o, step) ==
  [stepIndex |-> step.stepIndex, description |-> step.description,
   detailedExplanation |-> step.detailedExplanation,
   tokenStates |-> StatesOf(o, step), activeTokenId |-> step.activeTokenId]

\* what the caller has observed of the call that just completed
Outcome ==
  [expression |-> expression, mode |-> mode, error |-> error,
   tokens |-> result.tokens,
   steps |-> [k \in 1..Len(result.steps) |-> StepView(objs, result.steps[k])]]

OtherExpression == <<"(", "B", "+", "1", ")", "*", "A">>

\* App.tsx:23-39: the caller calls the engine again, with an expression it
\* has used before or with another one, in either mode
NextCall ==
  /\ pc = "done"
  /\ Len(history) + 1 < MaxCalls
  /\ history' = Append(history, Outcome)
  /\ \E e \in {expression, OtherExpression}
              \cup {history[k].expression : k \in 1..Len(history)} :
       expression' = e
  /\ \E m \in Modes : mode' = m
  /\ pc' = "idle"
  /\ UNCHANGED <<tokens, i, operatorStack, outputQueue, objs, steps, thrown,
                 result, error, play, panel>>

RepeatInputs == Chains \cup Examples \cup {<<>>, <<"A", "A">>, <<"A", "+", "A">>}

InitRepeat == InitWith(RepeatInputs)

NextRepeat ==
  \/ Next
  \/ NextCall

SpecRepeat == InitRepeat /\ [][NextRepeat]_vars

\* C8: two calls with the same expression and mode, whatever was called
\* in between, give the same outcome: the same tokens (id, value, type,
\* priority), the same steps (index, title, detail, locations, active
\* token), or the same error.
C8_SameArgumentsSameOutcome ==
  pc = "done" =>
    \A k \in 1..Len(history) :
      (history[k].expression = expression /\ history[k].mode = mode) =>
        history[k] = Outcome

C8_Witness ==
  /\ pc = "done"
  /\ Len(history) = 2
  /\ history[1].expression = expression
  /\ history[1].mode = mode
  /\ history[2].expression # expression
  /\ Len(result.steps) > 2
  /\ history[1].steps # history[2].steps

(* -------------------------------- C9 ----------------------------------- *)

Unrecognized(s) == \A k \in 1..Len(s) : s[k] \notin (OperandChars \cup SymbolChars)

\* C9: for the empty string and for an expression without any token
\* character a run in either mode succeeds with tokens = [] and exactly
\* two steps, Start (titled by mode) then Finished, each with an empty
\* location map and no active token.
C9_EmptyInputTwoSteps ==
  (pc = "done" /\ Unrecognized(expression)) =>
    /\ Succeeded
    /\ error = ""
    /\ result.tokens = <<>>
    /\ Len(result.steps) = 2
    /\ result.steps[1].description =
         (IF mode = "PREFIX" THEN "Start (Prefix Mode)" ELSE "Start")
    /\ result.steps[2].description = "Finished"
    /\ \A k \in 1..2 :
         /\ DOMAIN StatesOf(objs, result.steps[k]) = {}
         /\ result.steps[k].activeTokenId = Null
         /\ result.steps[k].stepIndex = k - 1

C9_Witness ==
  /\ pc = "done"
  /\ expression = <<"#", " ", "#">>
  /\ mode = "PREFIX"
  /\ Len(result.steps) = 2

(* -------------------------------- C10 ---------------------------------- *)

\* C10: once recorded, a step keeps its index, title, detail, active token
\* and locations through every later move, renumbering and recorded step,
\* and the steps of the returned result are the recorded ones.
C10_SnapshotsNeverChange ==
  [][ /\ pc # "idle" =>
           \A k \in 1..Len(steps) :
             /\ k <= Len(steps')
             /\ StepView(objs', steps'[k]) = StepView(objs, steps[k])
      /\ pc' = "done" /\ result' # NoResult =>
           /\ Len(result'.steps) = Len(steps)
           /\ \A k \in 1..Len(steps) :
                StepView(objs', result'.steps[k]) = StepView(objs, steps[k])
    ]_vars

C10_Witness ==
  /\ Succeeded
  /\ Len(result.steps) >= 6
  /\ \E k \in 1..Len(result.steps) :
       /\ result.steps[k].description = "Pop + to Output"
       /\ StatesOf(objs, result.steps[k]) # StatesOf(objs, result.steps[k - 1])
  /\ StatesOf(objs, result.steps[1]) # objs[LiveRef]

(* -------------------------------- C11 ---------------------------------- *)

TokenIds(toks) == {toks[k].id : k \in 1..Len(toks)}

\* C11: within a run the token ids are pairwise distinct, also when a
\* literal occurs several times, and the location map of every recorded
\* step has exactly the token ids as keys, each with one zone.
C11_IdsDistinctAndTracked ==
  pc # "idle" =>
    /\ \A a, b \in 1..Len(tokens) : tokens[a].id = tokens[b].id => a = b
    /\ Cardinality(TokenIds(tokens)) = Len(tokens)
    /\ \A k \in 1..Len(steps) :
         /\ DOMAIN StatesOf(objs, steps[k]) = TokenIds(tokens)
         /\ \A id \in TokenIds(tokens) :
              StatesOf(objs, steps[k])[id].location \in Zones

C11_Witness ==
  /\ Succeeded
  /\ expression = <<"A", "+", "A">>
  /\ tokens[1].value = tokens[3].value
  /\ tokens[1].id # tokens[3].id
  /\ Len(steps) = 9

(* -------------------------------- C12 ---------------------------------- *)

\* C12: the step at list position k (counted from 0) has index k, in the
\* steps recorded so far and in the returned result.
C12_StepIndexIsPosition ==
  /\ pc # "idle" => \A k \in 1..Len(steps) : steps[k].stepIndex = k - 1
  /\ \A k \in 1..Len(result.steps) : result.steps[k].stepIndex = k - 1

C12_Witness ==
  /\ Succeeded
  /\ Len(result.steps) >= 10
  /\ result.steps[Len(result.steps)].stepIndex = Len(result.steps) - 1

(* -------------------------------- C13 ---------------------------------- *)
(* The tokens the lexical rule calls for, stated by input positions.       *)

IsOperandChar(c) == c \in OperandChars

\* p starts a maximal run of operand characters
RunStart(s, p) == IsOperandChar(s[p]) /\ (p = 1 \/ ~IsOperandChar(s[p - 1]))

\* the last position of the run of operand characters that contains p
RunEnd(s, p) ==
  CHOOSE q \in p..Len(s) :
    /\ \A j \in p..q : IsOperandChar(s[j])
    /\ q = Len(s) \/ ~IsOperandChar(s[q + 1])

\* the positions at which a token starts
TokenStarts(s) == {p \in 1..Len(s) : RunStart(s, p) \/ s[p] \in SymbolChars}

\* the k-th smallest element of the set of positions
Nth(set, k) == CHOOSE p \in set : Cardinality({q \in set : q < p}) = k - 1

RECURSIVE Join(_)
Join(cs) == IF cs = <<>> THEN "" ELSE Head(cs) \o Join(Tail(cs))

LexValue(s, p) ==
  IF s[p] \in SymbolChars THEN s[p] ELSE Join(SubSeq(s, p, RunEnd(s, p)))

\* the token values of s, left to right
LexValues(s) ==
  [k \in 1..Cardinality(TokenStarts(s)) |-> LexValue(s, Nth(TokenStarts(s), k))]

TokenValues(toks) == [k \in 1..Len(toks) |-> toks[k].value]

\* C13: in POSTFIX mode the tokens are, left to right, one OPERAND per
\* maximal run of operand characters and one token per + - * / ^ ( ), and
\* nothing else; so their values concatenated are the input without its
\* unrecognized characters, and two consecutive OPERAND tokens are
\* separated in the input by at least one character.
C13_TokensFollowLexicalRule ==
  (pc # "idle" /\ mode = "POSTFIX") =>
    LET starts == TokenStarts(expression)
    IN  /\ TokenValues(tokens) = LexValues(expression)
        /\ \A k \in 1..Len(tokens) :
             (tokens[k].type = "OPERAND") <=>
               IsOperandChar(expression[Nth(starts, k)])
        /\ Join(TokenValues(tokens)) =
             Join(SelectSeq(expression,
                            LAMBDA c : c \in OperandChars \cup SymbolChars))
        /\ \A k \in 1..(Len(tokens) - 1) :
             (tokens[k].type = "OPERAND" /\ tokens[k + 1].type = "OPERAND") =>
               RunEnd(expression, Nth(starts, k)) + 1 < Nth(starts, k + 1)

C13_Witness ==
  /\ pc = "done"
  /\ mode = "POSTFIX"
  /\ expression = <<"A", "1", " ", "A">>
  /\ TokenValues(tokens) = <<"A1", "A">>

(* -------------------------------- C14 ---------------------------------- *)

\* C14: the type and priority of a token follow from its literal: '(' is
\* LEFT_PAREN and ')' RIGHT_PAREN with priority 0, + and - are OPERATOR
\* with 1, * and / OPERATOR with 2, ^ OPERATOR with 3, anything else is
\* OPERAND with 0.
C14_KindAndPrecedenceByLiteral ==
  \A k \in 1..Len(tokens) :
    LET t == tokens[k]
    IN  CASE t.value = "(" -> t.type = "LEFT_PAREN" /\ t.priority = 0
          [] t.value = ")" -> t.type = "RIGHT_PAREN" /\ t.priority = 0
          [] t.value \in {"+", "-"} -> t.type = "OPERATOR" /\ t.priority = 1
          [] t.value \in {"*", "/"} -> t.type = "OPERATOR" /\ t.priority = 2
          [] t.value = "^" -> t.type = "OPERATOR" /\ t.priority = 3
          [] OTHER -> t.type = "OPERAND" /\ t.priority = 0

C14_Witness ==
  /\ pc = "done"
  /\ expression = <<"(","(","A","-","B",")","/","C",")","^","D">>
  /\ mode = "POSTFIX"
  /\ {tokens[k].priority : k \in 1..Len(tokens)} = {0, 1, 2, 3}

(* ----------------------------- C15, C16 -------------------------------- *)

\* the Read step of the token with the given id and value
ReadStepOf(s, id, value) ==
  CHOOSE k \in 1..Len(s) :
    s[k].activeTokenId = id /\ s[k].description = "Read " \o value

\* the stack and the output recorded in a location map, bottom to top and
\* first to last
StackAt(toks, st) == SortByIndex(ZoneTokens(toks, st, "STACK"), st)

OutputAt(toks, st) == SortByIndex(ZoneTokens(toks, st, "OUTPUT"), st)

PostfixRule(top, t) ==
  \/ RefPrec(top.value) > RefPrec(t.value)
  \/ RefPrec(top.value) = RefPrec(t.value) /\ t.value # "^"

PrefixRule(top, t) ==
  \/ RefPrec(top.value) > RefPrec(t.value)
  \/ RefPrec(top.value) = RefPrec(t.value) /\ t.value = "^"

\* the length of the maximal run of operators at the top of stack S that
\* the rule lets t pop; a LEFT_PAREN ends the run
PopRun(S, t, rule(_, _)) ==
  LET pops(x) == x.type = "OPERATOR" /\ rule(x, t)
  IN  CHOOSE n \in 0..Len(S) :
        /\ \A m \in 1..n : pops(S[Len(S) - m + 1])
        /\ n = Len(S) \/ ~pops(S[Len(S) - n])

\* the step that pushes the operator read: since its Read snapshot exactly
\* the run PopRun has moved from the stack top to the output, top first,
\* with one snapshot each, and the operator is pushed on top
OperatorPushFollows(rule(_, _)) ==
  (pc = "token" /\ token.type = "OPERATOR" /\ pc' = "loop") =>
    LET r == ReadStepOf(steps, token.id, token.value)
        st0 == StatesOf(objs, steps[r])
        S0 == StackAt(tokens, st0)
        Q0 == OutputAt(tokens, st0)
        n == PopRun(S0, token, rule)
        last == StatesOf(objs', steps'[Len(steps')])
    IN  /\ operatorStack' = SubSeq(S0, 1, Len(S0) - n) \o <<token>>
        /\ outputQueue' = Q0 \o [m \in 1..n |-> S0[Len(S0) - m + 1]]
        /\ Len(steps') = r + n + 1
        /\ \A m \in 1..n : steps'[r + m].activeTokenId = S0[Len(S0) - m + 1].id
        /\ StackAt(tokens, last) = operatorStack'
        /\ OutputAt(tokens, last) = outputQueue'

\* C15: in POSTFIX mode an operator t that is read pops exactly the
\* maximal run of operators at the stack top whose precedence is greater
\* than t's, or equal when t is not ^, stopping at a LEFT_PAREN or at the
\* empty stack, and is then pushed on top; "A ^ B ^ C" gives A B C ^ ^.
C15_PostfixOperatorPops ==
  [][ /\ mode = "POSTFIX" => OperatorPushFollows(PostfixRule)
      /\ (mode = "POSTFIX" /\ pc' = "done" /\ expression = ExamplePower) =>
           FinalOutput' = <<"A", "B", "C", "^", "^">>
    ]_vars

C15_Witness ==
  /\ mode = "POSTFIX"
  /\ pc = "loop"
  /\ expression = ExamplePower
  /\ TokenValues(operatorStack) = <<"^", "^">>

(* -------------------------------- C16 ---------------------------------- *)

\* C16: in PREFIX mode an operator t that is read pops the stack top when
\* the top's precedence is greater than t's, or equal and t is ^; + - * /
\* do not pop a top of equal precedence; a LEFT_PAREN on top stops the
\* popping.
C16_PrefixOperatorPops ==
  [][ mode = "PREFIX" => OperatorPushFollows(PrefixRule) ]_vars

C16_Witness ==
  /\ mode = "PREFIX"
  /\ pc = "loop"
  /\ expression = ExampleMinus
  /\ TokenValues(operatorStack) = <<"-", "-">>

(* -------------------------------- C17 ---------------------------------- *)

\* the position in S of the LEFT_PAREN nearest to the top, 0 if there is none
NearestLeftParen(S) ==
  IF \E k \in 1..Len(S) : S[k].type = "LEFT_PAREN"
    THEN CHOOSE k \in 1..Len(S) :
           /\ S[k].type = "LEFT_PAREN"
           /\ \A m \in (k + 1)..Len(S) : S[m].type # "LEFT_PAREN"
    ELSE 0

\* C17: when a RIGHT_PAREN is read while the stack holds a LEFT_PAREN, the
\* operators above the nearest LEFT_PAREN go to OUTPUT from the top down,
\* one Pop snapshot each, then that LEFT_PAREN and the RIGHT_PAREN go to
\* DISCARDED with position 0 in one Discard snapshot; the RIGHT_PAREN is
\* never in the stack and what lies below the LEFT_PAREN is untouched.
C17_RightParenPopsThenDiscards ==
  [][ /\ (pc = "token" /\ token.type = "RIGHT_PAREN" /\ pc' # "token") =>
           LET r == ReadStepOf(steps, token.id, token.value)
               st0 == StatesOf(objs, steps[r])
               S0 == StackAt(tokens, st0)
               Q0 == OutputAt(tokens, st0)
               j == NearestLeftParen(S0)
               n == Len(S0) - j
               last == StatesOf(objs', steps'[Len(steps')])
               prev == StatesOf(objs', steps'[Len(steps') - 1])
           IN  /\ (pc' = "loop") <=> (j > 0)
               /\ j > 0 =>
                    /\ operatorStack' = SubSeq(S0, 1, j - 1)
                    /\ outputQueue' = Q0 \o [m \in 1..n |-> S0[Len(S0) - m + 1]]
                    /\ Len(steps') = r + n + 1
                    /\ \A m \in 1..n :
                         LET x == S0[Len(S0) - m + 1]
                         IN  /\ x.type = "OPERATOR"
                             /\ steps'[r + m].activeTokenId = x.id
                             /\ steps'[r + m].description =
                                  "Pop " \o x.value \o " to Output"
                             /\ StatesOf(objs', steps'[r + m])[x.id] =
                                  [location |-> "OUTPUT", index |-> Len(Q0) + m - 1]
                    /\ steps'[Len(steps')].description = "Discard Parentheses"
                    /\ steps'[Len(steps')].activeTokenId = token.id
                    /\ last[S0[j].id] = [location |-> "DISCARDED", index |-> 0]
                    /\ last[token.id] = [location |-> "DISCARDED", index |-> 0]
                    /\ prev[S0[j].id].location = "STACK"
                    /\ prev[token.id].location = "INPUT"
                    /\ \A k \in 1..(j - 1) : last[S0[k].id] = st0[S0[k].id]
                    /\ StackAt(tokens, last) = operatorStack'
      /\ \A k \in 1..Len(operatorStack') : operatorStack'[k].type # "RIGHT_PAREN"
      /\ Len(steps') > Len(steps) =>
           \A m \in 1..Len(tokens') :
             tokens'[m].type = "RIGHT_PAREN" =>
               StatesOf(objs', steps'[Len(steps')])[tokens'[m].id].location # "STACK"
    ]_vars

C17_Witness ==
  /\ pc = "loop"
  /\ mode = "POSTFIX"
  /\ expression = <<"A", "+", "(", "B", "+", "C", "^", "D", ")">>
  /\ steps[Len(steps)].description = "Discard Parentheses"
  /\ TokenValues(operatorStack) = <<"+">>
  /\ TokenValues(outputQueue) = <<"A", "B", "C", "D", "^", "+">>

(* -------------------------------- C18 ---------------------------------- *)

\* the literal of a token id, "" for none
ValueOfId(id) == IF id = Null THEN "" ELSE id[2]

\* step is a pop of the final drain
IsDrainStep(step) ==
  step.detailedExplanation =
    "Expression end. Pop remaining '" \o ValueOfId(step.activeTokenId) \o "'."

\* C18: in a successful run the operators left on the stack when the last
\* token has been processed go to OUTPUT from the top down, one snapshot
\* each, and the Finished step follows with the locations of the snapshot
\* before it.
C18_DrainThenFinished ==
  Succeeded =>
    LET S == result.steps
        n == Len(S)
        d == Cardinality({k \in 1..n : IsDrainStep(S[k])})
        b == n - d - 1
        st0 == StatesOf(objs, S[b])
        S0 == StackAt(result.tokens, st0)
        Q0 == OutputAt(result.tokens, st0)
    IN  /\ {k \in 1..n : IsDrainStep(S[k])} = (b + 1)..(n - 1)
        /\ IdsIn(st0, "INPUT") = {}
        /\ Len(S0) = d
        /\ \A m \in 1..d :
             LET x == S0[d - m + 1]
                 st == StatesOf(objs, S[b + m])
                 before == StatesOf(objs, S[b + m - 1])
             IN  /\ x.type = "OPERATOR"
                 /\ S[b + m].activeTokenId = x.id
                 /\ S[b + m].description = "Pop " \o x.value \o " to Output"
                 /\ st[x.id] = [location |-> "OUTPUT", index |-> Len(Q0) + m - 1]
                 /\ \A id \in DOMAIN st : id # x.id => st[id] = before[id]
                 /\ StackAt(result.tokens, st) = SubSeq(S0, 1, d - m)
        /\ S[n].description = "Finished"
        /\ S[n].activeTokenId = Null
        /\ StatesOf(objs, S[n]) = StatesOf(objs, S[n - 1])

C18_Witness ==
  /\ Succeeded
  /\ mode = "POSTFIX"
  /\ expression = <<"A", "+", "B", "*", "C">>
  /\ Cardinality({k \in 1..Len(result.steps) : IsDrainStep(result.steps[k])}) = 2
  /\ FinalOutput = <<"A", "B", "C", "*", "+">>

(* -------------------------------- C19 ---------------------------------- *)

ExampleNested == <<"(","(","A","-","B",")","/","C",")","^","D">>

\* the kind the lexical rule gives a literal
LexKind(v) ==
  CASE v = "(" -> "LEFT_PAREN"
    [] v = ")" -> "RIGHT_PAREN"
    [] v \in {"+", "-", "*", "/", "^"} -> "OPERATOR"
    [] OTHER -> "OPERAND"

\* C19: in PREFIX mode the tokens are the left-to-right tokens of the
\* expression in reverse order, operands with their text unchanged, every
\* '(' turned into ')' of kind RIGHT_PAREN and every ')' into '(' of kind
\* LEFT_PAREN; the id of a token is made of its index and literal after
\* this transform.
C19_PrefixTokensReversedSwapped ==
  (pc # "idle" /\ mode = "PREFIX") =>
    LET lex == LexValues(expression)
        n == Len(lex)
    IN  /\ Len(tokens) = n
        /\ \A k \in 1..n :
             LET src == lex[n + 1 - k]
                 v == CASE src = "(" -> ")" [] src = ")" -> "(" [] OTHER -> src
             IN  /\ tokens[k].value = v
                 /\ tokens[k].type = LexKind(v)
                 /\ tokens[k].priority = RefPrec(v)
                 /\ tokens[k].id = <<k - 1, v>>
        /\ pc = "done" /\ result # NoResult => result.tokens = tokens

C19_Witness ==
  /\ Succeeded
  /\ mode = "PREFIX"
  /\ expression = ExampleNested
  /\ TokenValues(result.tokens) =
       <<"D", "^", "(", "C", "/", "(", "B", "-", "A", ")", ")">>
  /\ result.tokens[3].type = "LEFT_PAREN"
  /\ result.tokens[3].id = <<2, "(">>

(* -------------------------------- C20 ---------------------------------- *)

\* C20: in PREFIX mode a run fails as the POSTFIX run of the same
\* expression does: "( A + B" and any expression with a '(' never closed
\* fails with the missing ')' message, "A + B )" and any expression with a
\* ')' that has no earlier '(' fails with the missing '(' message.
C20_PrefixErrorsAsPostfix ==
  (mode = "PREFIX" /\ pc = "done") =>
    /\ error = ParenOutcome(expression)
    /\ expression = ExampleUnclosed => error = MissingRight
    /\ expression = ExampleUnopened => error = MissingLeft

(* -------------------------------- C21 ---------------------------------- *)

\* the ids of the tokens of a stack or queue
IdsOf(seq) == {seq[k].id : k \in 1..Len(seq)}

\* the map st places the tokens of seq, and no others, in zone, each at its
\* 0-based place in seq
PlacedAs(st, seq, zone) ==
  /\ IdsIn(st, zone) = IdsOf(seq)
  /\ \A k \in 1..Len(seq) : st[seq[k].id].index = k - 1

C21_Step ==
  Len(steps') > Len(steps) =>
    LET st == StatesOf(objs', steps'[Len(steps')])
    IN  /\ PlacedAs(st, operatorStack', "STACK")
        /\ PlacedAs(st, outputQueue', "OUTPUT")
        /\ \A id \in IdsIn(st, "DISCARDED") : st[id].index = 0
        /\ Len(steps) > 0 =>
             LET before == StatesOf(objs, steps[Len(steps)])
             IN  \A id \in IdsIn(before, "OUTPUT") : st[id] = before[id]

\* C21: in every recorded step the STACK tokens sit at positions 0..k-1 equal
\* to their depth in operatorStack from the bottom, the OUTPUT tokens at
\* positions 0..m-1 equal to their order in outputQueue, every DISCARDED
\* token at position 0, and a token in OUTPUT keeps its entry in the next
\* step (hence in every later one).
C21_PositionsAreDepthAndEmission == [][C21_Step]_vars

\* a snapshot of "(A+B)*(C-D)" with three tokens on the stack, three in the
\* output and two discarded
C21_Witness ==
  /\ expression = <<"(","A","+","B",")","*","(","C","-","D",")">>
  /\ Len(steps) > 0
  /\ LET st == StatesOf(objs, steps[Len(steps)])
     IN  /\ Len(operatorStack) = 3
         /\ PlacedAs(st, operatorStack, "STACK")
         /\ Len(outputQueue) >= 3
         /\ PlacedAs(st, outputQueue, "OUTPUT")
         /\ Cardinality(IdsIn(st, "DISCARDED")) = 2

(* -------------------------------- C22 ---------------------------------- *)

IsReadStep(step) ==
  /\ step.activeTokenId # Null
  /\ step.description = "Read " \o ValueOfId(step.activeTokenId)

\* the positions in s of the Read steps
ReadSteps(s) == {k \in 1..Len(s) : IsReadStep(s[k])}

\* C22: the r-th Read step has the r-th token as active token, still in
\* INPUT, with the token states of the step before it; every token past
\* the r-th is in INPUT as long as only r Read steps have been recorded; and
\* a run that returns has recorded one Read step per token.
C22_ReadInSequence ==
  Len(steps) > 0 =>
    LET n == Len(steps)
        st == StatesOf(objs, steps[n])
        r == Cardinality(ReadSteps(steps))
    IN  /\ r <= Len(tokens)
        /\ \A m \in (r + 1)..Len(tokens) : st[tokens[m].id].location = "INPUT"
        /\ IsReadStep(steps[n]) =>
             /\ steps[n].activeTokenId = tokens[r].id
             /\ st[tokens[r].id].location = "INPUT"
             /\ n > 1
             /\ st = StatesOf(objs, steps[n - 1])
        /\ pc \in {"returned", "done"} /\ thrown = "" => r = Len(tokens)

\* the Read step of the closing parenthesis of "(A+B)*(C-D)", the eleventh
\* token and the eleventh Read step, after visible moves of earlier tokens
C22_Witness ==
  /\ expression = <<"(","A","+","B",")","*","(","C","-","D",")">>
  /\ mode = "POSTFIX"
  /\ Len(steps) > 1
  /\ IsReadStep(steps[Len(steps)])
  /\ Cardinality(ReadSteps(steps)) = 11
  /\ steps[Len(steps)].activeTokenId = tokens[11].id
  /\ tokens[11].type = "RIGHT_PAREN"
  /\ Cardinality(IdsIn(StatesOf(objs, steps[Len(steps)]), "INPUT")) = 1

(* -------------------------------- C23 ---------------------------------- *)

\* the tokens whose zone in step k of s differs from their zone in step k-1
Moved(o, s, k) ==
  {id \in DOMAIN StatesOf(o, s[k]) :
     StatesOf(o, s[k])[id].location # StatesOf(o, s[k - 1])[id].location}

TokenOfId(toks, id) == toks[CHOOSE k \in 1..Len(toks) : toks[k].id = id]

\* C23: in a successful run the active token is none in exactly the first
\* (Start) and the last (Finished) step; in every other step it is the id of
\* a token: in a Read step the next token in sequence, in a Move, Push or Pop
\* step the one token that changed zone, in a Discard step the RIGHT_PAREN
\* among the tokens that changed zone.
C23_ActiveTokenPerStep ==
  Succeeded =>
    LET s == result.steps
        n == Len(s)
    IN  /\ n >= 2
        /\ \A k \in 1..n : (s[k].activeTokenId = Null) <=> (k = 1 \/ k = n)
        /\ s[1].description \in {"Start", "Start (Prefix Mode)"}
        /\ s[n].description = "Finished"
        /\ \A k \in 2..(n - 1) :
             LET a == s[k].activeTokenId
                 v == ValueOfId(a)
                 d == s[k].description
             IN  /\ a \in TokenIds(result.tokens)
                 /\ v = TokenOfId(result.tokens, a).value
                 /\ \/ /\ d = "Read " \o v
                       /\ a = result.tokens[Cardinality(ReadSteps(SubSeq(s, 1, k)))].id
                       /\ Moved(objs, s, k) = {}
                    \/ /\ d \in {"Move " \o v \o " to Output",
                                 "Push " \o v \o " to Stack",
                                 "Pop " \o v \o " to Output"}
                       /\ Moved(objs, s, k) = {a}
                    \/ /\ d = "Discard Parentheses"
                       /\ TokenOfId(result.tokens, a).type = "RIGHT_PAREN"
                       /\ a \in Moved(objs, s, k)

\* the installed result of "(A+B)*(C-D)" in PREFIX mode: 27 steps with
\* Read, Move, Push, Pop and Discard steps between Start and Finished
C23_Witness ==
  /\ Succeeded
  /\ expression = <<"(","A","+","B",")","*","(","C","-","D",")">>
  /\ mode = "PREFIX"
  /\ Len(result.steps) = 27
  /\ \E k \in 2..26 : result.steps[k].description = "Discard Parentheses"
  /\ \E k \in 2..26 : result.steps[k].description = "Pop * to Output"
  /\ result.steps[27].activeTokenId = Null

(* -------------------------------- C24 ---------------------------------- *)

\* C24: the newest step differs from the one before it in the zone of at
\* most one token, except a Discard step, where exactly two change zone (a
\* LEFT_PAREN leaving STACK and a RIGHT_PAREN leaving INPUT); Start has every
\* token in INPUT, Read and Finished change no zone; and the STACK positions
\* of every snapshot are 0..k-1 without a gap.
C24_OneEventPerStep ==
  Len(steps) > 0 =>
    LET n == Len(steps)
        st == StatesOf(objs, steps[n])
        d == steps[n].description
    IN  /\ Contiguous(st, "STACK")
        /\ n = 1 => /\ d \in {"Start", "Start (Prefix Mode)"}
                    /\ IdsIn(st, "INPUT") = DOMAIN st
        /\ n > 1 =>
             LET before == StatesOf(objs, steps[n - 1])
                 moved == Moved(objs, steps, n)
             IN  /\ d \notin {"Start", "Start (Prefix Mode)"}
                 /\ IF d = "Discard Parentheses"
                      THEN /\ Cardinality(moved) = 2
                           /\ \E l \in moved, r \in moved :
                                /\ TokenOfId(tokens, l).type = "LEFT_PAREN"
                                /\ before[l].location = "STACK"
                                /\ TokenOfId(tokens, r).type = "RIGHT_PAREN"
                                /\ before[r].location = "INPUT"
                      ELSE IF d = "Finished" \/ IsReadStep(steps[n])
                        THEN moved = {}
                        ELSE Cardinality(moved) = 1

\* the second Discard step of "(A+B)*(C-D)": two tokens change zone, after
\* a Pop step, with * left on the stack at position 0
C24_Witness ==
  /\ expression = <<"(","A","+","B",")","*","(","C","-","D",")">>
  /\ mode = "POSTFIX"
  /\ Len(steps) > 2
  /\ steps[Len(steps)].description = "Discard Parentheses"
  /\ steps[Len(steps) - 1].description = "Pop - to Output"
  /\ Cardinality(Moved(objs, steps, Len(steps))) = 2
  /\ Cardinality(Moved(objs, steps, Len(steps) - 1)) = 1
  /\ PositionsIn(StatesOf(objs, steps[Len(steps)]), "STACK") = {0}

(* -------------------------------- C25 ---------------------------------- *)

\* the inputs of the runs checked for termination
FairInputs ==
  UNION {[1..n -> Alphabet] : n \in 0..(MaxLen - 1)} \cup Chains \cup Examples

InitFair == InitWith(FairInputs)

\* generateSteps runs synchronously and the effect that calls it runs to its
\* end: every enabled step is eventually taken
SpecFair == InitFair /\ [][Next]_vars /\ WF_vars(Next)

PcRank(p) ==
  CASE p = "token" -> 4
    [] p = "loop" -> 2
    [] p \in {"returned", "threw"} -> 1
    [] OTHER -> 0

\* a bound on the steps left: three per unread token, one per stacked token
Rank(n, k, depth, p) == 3 * (n - k) + depth + PcRank(p)

\* one iteration of the for loop (Read) or of a while loop (a pop)
LoopIteration ==
  \/ Read
  \/ RightParenDiscard
  \/ RightParenPop
  \/ OperatorPop
  \/ DrainPop
  \/ DrainMissing

C25_Step ==
  pc # "idle" =>
    /\ Rank(Len(tokens'), i', Len(operatorStack'), pc') >= 0
    /\ Rank(Len(tokens'), i', Len(operatorStack'), pc')
         < Rank(Len(tokens), i, Len(operatorStack), pc)
    /\ LoopIteration =>
         \/ i' = i + 1 /\ operatorStack' = operatorStack
         \/ i' = i /\ operatorStack' = Pop(operatorStack) /\ Len(operatorStack) > 0

C25_Outcome ==
  pc = "done" =>
    \/ result # NoResult /\ error = "" /\ thrown = ""
    \/ result = NoResult /\ error = MissingLeft /\ thrown = MissingLeft
    \/ result = NoResult /\ error = MissingRight /\ thrown = MissingRight

\* C25: every run reaches its end; it ends with a complete result, with
\* the missing '(' error or with the missing ')' error and never two of them;
\* every loop iteration consumes one input token or removes one token from
\* the stack, and every step lowers a rank that is never negative.
C25_TerminatesInOneOutcome ==
  /\ <>(pc = "done")
  /\ [][C25_Step]_vars
  /\ [](C25_Outcome)

\* the run of "A*B)+(C" has ended with the missing '(' error after
\* consuming four tokens and popping * from the stack
C25_Witness ==
  /\ pc = "done"
  /\ expression = <<"A","*","B",")","+","(","C">>
  /\ error = MissingLeft
  /\ result = NoResult
  /\ i = 4
  /\ Len(steps) = 9

(* -------------------------------- C26 ---------------------------------- *)

\* the ids of tokens[k+1..n], 1-based: the tokens of 0-based index >= k
SuffixIds(toks, k) == {toks[m].id : m \in (k + 1)..Len(toks)}

\* C26: in every step the tokens in INPUT are exactly a suffix of the token
\* sequence, and each of them has its 0-based sequence index as position.
C26_InputIsSuffixWithOriginalIndex ==
  Len(steps) > 0 =>
    LET st == StatesOf(objs, steps[Len(steps)])
    IN  /\ \E k \in 0..Len(tokens) : IdsIn(st, "INPUT") = SuffixIds(tokens, k)
        /\ \A m \in 1..Len(tokens) :
             st[tokens[m].id].location = "INPUT" => st[tokens[m].id].index = m - 1

\* a snapshot of "((A-B)/C)^D" in which eight tokens have left INPUT and the
\* last three are in INPUT at positions 8, 9 and 10
C26_Witness ==
  /\ expression = ExampleNested
  /\ mode = "POSTFIX"
  /\ Len(steps) > 0
  /\ LET st == StatesOf(objs, steps[Len(steps)])
     IN  /\ IdsIn(st, "INPUT") = SuffixIds(tokens, 8)
         /\ PositionsIn(st, "INPUT") = {8, 9, 10}
         /\ Cardinality(IdsIn(st, "DISCARDED")) = 2

(* -------------------------------- C27 ---------------------------------- *)

\* <<token type, zone left, zone entered>>
AllowedMoves ==
  { <<"OPERAND", "INPUT", "OUTPUT">>,
    <<"OPERATOR", "INPUT", "STACK">>,
    <<"LEFT_PAREN", "INPUT", "STACK">>,
    <<"OPERATOR", "STACK", "OUTPUT">>,
    <<"LEFT_PAREN", "STACK", "DISCARDED">>,
    <<"RIGHT_PAREN", "INPUT", "DISCARDED">> }

\* the moves made between step k-1 and step k of s
MovesAt(o, toks, s, k) ==
  {<<TokenOfId(toks, id).type,
     StatesOf(o, s[k - 1])[id].location,
     StatesOf(o, s[k])[id].location>> : id \in Moved(o, s, k)}

\* C27: between the newest step and the one before it a token changes zone
\* only along INPUT->OUTPUT (OPERAND), INPUT->STACK (OPERATOR, LEFT_PAREN),
\* STACK->OUTPUT (OPERATOR), STACK->DISCARDED (LEFT_PAREN) and
\* INPUT->DISCARDED (RIGHT_PAREN); so nothing leaves OUTPUT or DISCARDED and
\* nothing returns to INPUT; STACK holds no OPERAND and no RIGHT_PAREN, OUTPUT
\* holds no parenthesis.
C27_ZoneMovesByKind ==
  Len(steps) > 0 =>
    LET n == Len(steps)
        st == StatesOf(objs, steps[n])
    IN  /\ n > 1 => MovesAt(objs, tokens, steps, n) \subseteq AllowedMoves
        /\ \A id \in IdsIn(st, "STACK") :
             TokenOfId(tokens, id).type \in {"OPERATOR", "LEFT_PAREN"}
        /\ \A id \in IdsIn(st, "OUTPUT") :
             TokenOfId(tokens, id).type \in {"OPERAND", "OPERATOR"}
        /\ \A id \in IdsIn(st, "DISCARDED") :
             TokenOfId(tokens, id).type \in {"LEFT_PAREN", "RIGHT_PAREN"}

\* the returned steps of "(A+B)*(C-D)" make each of the six moves
C27_Witness ==
  /\ Succeeded
  /\ expression = <<"(","A","+","B",")","*","(","C","-","D",")">>
  /\ mode = "POSTFIX"
  /\ UNION {MovesAt(objs, result.tokens, result.steps, k) :
              k \in 2..Len(result.steps)} = AllowedMoves

(* -------------------------------- C28 ---------------------------------- *)

\* C28: in every step, two operators at consecutive STACK positions have
\* precedences lower <= upper; in POSTFIX mode they are equal only when both
\* are ^, in PREFIX mode only when neither is ^.
C28_StackPrecedenceOrdered ==
  Len(steps) > 0 =>
    LET S == StackAt(tokens, StatesOf(objs, steps[Len(steps)]))
    IN  \A k \in 1..(Len(S) - 1) :
          (S[k].type = "OPERATOR" /\ S[k + 1].type = "OPERATOR") =>
            /\ getPriority(S[k].value) <= getPriority(S[k + 1].value)
            /\ getPriority(S[k].value) = getPriority(S[k + 1].value) =>
                 IF mode = "POSTFIX"
                   THEN S[k].value = "^" /\ S[k + 1].value = "^"
                   ELSE S[k].value # "^" /\ S[k + 1].value # "^"

\* the snapshot of "A+B*C^D^E" in POSTFIX mode with + * ^ ^ on the stack
C28_Witness ==
  /\ expression = <<"A","+","B","*","C","^","D","^","E">>
  /\ mode = "POSTFIX"
  /\ Len(steps) > 0
  /\ TokenValues(StackAt(tokens, StatesOf(objs, steps[Len(steps)])))
       = <<"+", "*", "^", "^">>

\* the snapshot of "A-B-C" in PREFIX mode with - - on the stack
C28_WitnessPrefix ==
  /\ expression = ExampleMinus
  /\ mode = "PREFIX"
  /\ Len(steps) > 0
  /\ TokenValues(StackAt(tokens, StatesOf(objs, steps[Len(steps)])))
       = <<"-", "-">>

(* -------------------------------- C29 ---------------------------------- *)

\* the 1-based place in toks of the token with this id
PlaceOf(toks, id) == CHOOSE k \in 1..Len(toks) : toks[k].id = id

\* C29: in every step of either mode the OPERAND tokens in OUTPUT, taken by
\* position, are in the order they have in the token sequence.
C29_OperandsKeepOrder ==
  Len(steps) > 0 =>
    LET O == OutputAt(tokens, StatesOf(objs, steps[Len(steps)]))
    IN  \A a \in 1..Len(O), b \in 1..Len(O) :
          (a < b /\ O[a].type = "OPERAND" /\ O[b].type = "OPERAND") =>
            PlaceOf(tokens, O[a].id) < PlaceOf(tokens, O[b].id)

\* the last step of "(A+B)*(C-D)" in PREFIX mode: tokens ( D - C ) * ( B + A )
\* and output D C - B A + *
C29_Witness ==
  /\ Succeeded
  /\ expression = <<"(","A","+","B",")","*","(","C","-","D",")">>
  /\ mode = "PREFIX"
  /\ TokenValues(result.tokens)
       = <<"(", "D", "-", "C", ")", "*", "(", "B", "+", "A", ")">>
  /\ FinalOutput = <<"D", "C", "-", "B", "A", "+", "*">>

(* -------------------------------- C30 ---------------------------------- *)

\* the steps of s with this active token
StepsAbout(s, id) == {k \in 1..Len(s) : s[k].activeTokenId = id}

\* those of them with this description
StepsNamed(s, id, d) == {k \in StepsAbout(s, id) : s[k].description = d}

CountOfType(toks, types) ==
  Cardinality({k \in 1..Len(toks) : toks[k].type \in types})

\* the step descriptions a token of this type and value has, besides Read
OwnSteps(type, v) ==
  CASE type = "OPERAND" -> {"Move " \o v \o " to Output"}
    [] type = "OPERATOR" -> {"Push " \o v \o " to Stack", "Pop " \o v \o " to Output"}
    [] type = "LEFT_PAREN" -> {"Push ( to Stack"}
    [] OTHER -> {"Discard Parentheses"}

\* C30: a successful run has 2 + 2*operands + 3*operators + 2*parentheses
\* steps: for each operand one Read and one Move step, for each operator
\* one Read, one Push and one Pop step, for each LEFT_PAREN one Read and one
\* Push step, for each RIGHT_PAREN one Read and one Discard step, and no
\* other step about the token.
C30_StepCount ==
  Succeeded =>
    LET s == result.steps
        toks == result.tokens
    IN  /\ Len(s) = 2 + 2 * CountOfType(toks, {"OPERAND"})
                      + 3 * CountOfType(toks, {"OPERATOR"})
                      + 2 * CountOfType(toks, {"LEFT_PAREN", "RIGHT_PAREN"})
        /\ \A m \in 1..Len(toks) :
             LET t == toks[m]
             IN  /\ Cardinality(StepsNamed(s, t.id, "Read " \o t.value)) = 1
                 /\ \A d \in OwnSteps(t.type, t.value) :
                      Cardinality(StepsNamed(s, t.id, d)) = 1
                 /\ Cardinality(StepsAbout(s, t.id))
                      = 1 + Cardinality(OwnSteps(t.type, t.value))

\* "A + B * C - ( D / E )": five operands, four operators and two
\* parentheses in 28 steps
C30_Witness ==
  /\ Succeeded
  /\ expression = ExampleMixed
  /\ CountOfType(result.tokens, {"OPERAND"}) = 5
  /\ CountOfType(result.tokens, {"OPERATOR"}) = 4
  /\ CountOfType(result.tokens, {"LEFT_PAREN", "RIGHT_PAREN"}) = 2
  /\ Len(result.steps) = 28

(* ------------------------------ playback ------------------------------- *)
(* App (App.tsx) and GeminiAssistant (Controls.tsx).  An event handler, a   *)
(* timer callback or a settled promise runs to its end, together with the   *)
(* effects of the commit it causes, before the next one starts; the engine  *)
(* runs inside the expression effect, so nothing else runs while            *)
(* pc # "done".  App.tsx holds two App components; variant says which one   *)
(* is mounted.  GeminiAssistant is taken as mounted with stepIndex =        *)
(* currentStep and expression = expression.                                 *)

\* at most this many requests wait for their answer at once
MaxInFlight == 2

\* App.tsx:10, 289
DEFAULT_EXPRESSION == ExampleMixed

\* the characters String.prototype.trim removes, of those in the inputs
Whitespace == {" "}

\* !expression.trim()
Blank(e) == \A k \in 1..Len(e) : e[k] \in Whitespace

\* what the user types into the input field
PlayInputs == {DEFAULT_EXPRESSION, <<"A">>, <<" ">>, <<"(">>, <<"A", ")">>}

\* App.tsx:13-18, 292-296 and Controls.tsx:103-105: the state at mount; the
\* expression effect then runs generateSteps(DEFAULT_EXPRESSION)
InitPlay ==
  /\ expression = DEFAULT_EXPRESSION
  /\ mode = "POSTFIX"
  /\ pc = "idle"
  /\ tokens = <<>>
  /\ i = 0
  /\ operatorStack = <<>>
  /\ outputQueue = <<>>
  /\ objs = <<>>
  /\ steps = <<>>
  /\ thrown = ""
  /\ result = NoResult
  /\ error = ""
  /\ history = <<>>
  /\ variant \in {1, 2}
  /\ currentStep = 0
  /\ isPlaying = FALSE
  /\ quiet = FALSE
  /\ response = ""
  /\ loading = FALSE
  /\ aiError = ""
  /\ requests = <<>>

\* result is not null
Present == result # NoResult

\* result.steps.length - 1
LastStep == Len(result.steps) - 1

\* a handler of Controls or of the input field can be called: the engine is
\* not running, the user is still there, and (App.tsx:142) the first App
\* renders Controls only with a result
Interactive == pc = "done" /\ ~quiet /\ (variant = 1 => Present)

\* App.tsx:307-310: the second App logs the error and keeps what it shows
AppCatchKeep ==
  /\ pc = "threw"
  /\ variant = 2
  /\ pc' = "done"
  /\ UNCHANGED <<expression, mode, tokens, i, operatorStack, outputQueue,
                 objs, steps, thrown, result, error, history, play, panel>>

\* App.tsx:128, 23, 29 and 392, 301-302: setExpression(e) with a new value,
\* then the expression effect calls generateSteps(expression)
ChangeExpression ==
  /\ pc = "done"
  /\ ~quiet
  /\ \E e \in PlayInputs \ {expression} :
       /\ variant = 1 => ~Blank(e)
       /\ expression' = e
  /\ pc' = "idle"
  /\ PanelEffect(TRUE)
  /\ UNCHANGED <<mode, tokens, i, operatorStack, outputQueue, objs, steps,
                 thrown, result, error, history, play>>

\* App.tsx:128, 23-28: the first App, given a blank expression
ChangeToBlank ==
  /\ pc = "done"
  /\ ~quiet
  /\ variant = 1
  /\ \E e \in PlayInputs \ {expression} :
       /\ Blank(e)
       /\ expression' = e
  /\ result' = NoResult
  /\ error' = ""
  /\ PanelEffect(TRUE)
  /\ UNCHANGED <<mode, pc, tokens, i, operatorStack, outputQueue, objs, steps,
                 thrown, history, play>>

\* the timer callback without the test for the last step
TickNoBound ==
  /\ pc = "done"
  /\ isPlaying
  /\ Present
  /\ currentStep' = currentStep + 1
  /\ PanelEffect(TRUE)
  /\ UNCHANGED <<expression, mode, pc, tokens, i, operatorStack, outputQueue,
                 objs, steps, thrown, result, error, history,
                 variant, isPlaying, quiet>>

\* the timer callback without setIsPlaying(false)
TickKeepPlaying ==
  /\ pc = "done"
  /\ isPlaying
  /\ Present
  /\ currentStep' = IF currentStep >= LastStep THEN currentStep
                                               ELSE currentStep + 1
  /\ PanelEffect(currentStep < LastStep)
  /\ UNCHANGED <<expression, mode, pc, tokens, i, operatorStack, outputQueue,
                 objs, steps, thrown, result, error, history,
                 variant, isPlaying, quiet>>

\* App.tsx:43-51, 315-323: the interval exists while isPlaying (and, in the
\* first App, result) holds; its callback
Tick ==
  /\ pc = "done"
  /\ isPlaying
  /\ Present
  /\ IF currentStep >= LastStep
       THEN /\ isPlaying' = FALSE
            /\ currentStep' = currentStep
       ELSE /\ currentStep' = currentStep + 1
            /\ isPlaying' = isPlaying
  /\ PanelEffect(currentStep < LastStep)
  /\ UNCHANGED <<expression, mode, pc, tokens, i, operatorStack, outputQueue,
                 objs, steps, thrown, result, error, history, variant, quiet>>

\* App.tsx:62, 334
handlePlayPause ==
  /\ Interactive
  /\ isPlaying' = ~isPlaying
  /\ UNCHANGED <<expression, mode, pc, tokens, i, operatorStack, outputQueue,
                 objs, steps, thrown, result, error, history,
                 variant, currentStep, quiet, panel>>

\* App.tsx:63-66, 335-338
handleReset ==
  /\ Interactive
  /\ isPlaying' = FALSE
  /\ currentStep' = 0
  /\ PanelEffect(currentStep # 0)
  /\ UNCHANGED <<expression, mode, pc, tokens, i, operatorStack, outputQueue,
                 objs, steps, thrown, result, error, history, variant, quiet>>

\* App.tsx:67-70, 339-342
handleStepForward ==
  /\ Interactive
  /\ isPlaying' = FALSE
  /\ currentStep' = IF Present /\ currentStep < LastStep THEN currentStep + 1
                                                         ELSE currentStep
  /\ PanelEffect(Present /\ currentStep < LastStep)
  /\ UNCHANGED <<expression, mode, pc, tokens, i, operatorStack, outputQueue,
                 objs, steps, thrown, result, error, history, variant, quiet>>

\* App.tsx:71-74, 343-346
handleStepBack ==
  /\ Interactive
  /\ isPlaying' = FALSE
  /\ currentStep' = IF currentStep > 0 THEN currentStep - 1 ELSE currentStep
  /\ PanelEffect(currentStep > 0)
  /\ UNCHANGED <<expression, mode, pc, tokens, i, operatorStack, outputQueue,
                 objs, steps, thrown, result, error, history, variant, quiet>>

\* the user has pressed play and makes no further input
UserStops ==
  /\ Interactive
  /\ isPlaying
  /\ quiet' = TRUE
  /\ UNCHANGED <<expression, mode, pc, tokens, i, operatorStack, outputQueue,
                 objs, steps, thrown, result, error, history,
                 variant, currentStep, isPlaying, panel>>

NextPlay ==
  \/ Next
  \/ AppCatchKeep
  \/ ChangeExpression
  \/ ChangeToBlank
  \/ Tick
  \/ handlePlayPause
  \/ handleReset
  \/ handleStepForward
  \/ handleStepBack
  \/ UserStops

SpecPlay == InitPlay /\ [][NextPlay]_vars

\* the interval fires as long as it exists
SpecPlayFair == SpecPlay /\ WF_vars(Tick)

(* -------------------------------- C31 ---------------------------------- *)

C31_Range == Present => (0 <= currentStep /\ currentStep <= LastStep)

C31_Step ==
  /\ (handleStepForward /\ Present /\ currentStep = LastStep) =>
       currentStep' = currentStep
  /\ (handleStepBack /\ currentStep = 0) => currentStep' = currentStep
  /\ AppSetResult => (result' # NoResult /\ currentStep' = 0)

\* C31: whenever a result is present, 0 <= currentStep <= steps.length - 1,
\* under every interleaving of timer ticks, step-forward, step-back, reset
\* and expression changes; step-forward at the last step and step-back at
\* step 0 leave the cursor where it is; installing a result sets it to 0.
C31_CursorInRange == [](C31_Range) /\ [][C31_Step]_vars

\* the cursor on the last of the four steps of "A", a result installed after
\* the 28-step result of the default expression
C31_Witness ==
  /\ pc = "done"
  /\ expression = <<"A">>
  /\ Present
  /\ Len(result.steps) = 4
  /\ currentStep = LastStep
  /\ isPlaying

(* -------------------------------- C32 ---------------------------------- *)

C32_Step ==
  /\ Tick =>
       IF currentStep < LastStep
         THEN currentStep' = currentStep + 1 /\ isPlaying'
         ELSE currentStep' = currentStep /\ ~isPlaying'
  /\ quiet => (quiet' /\ result' = result)
  /\ (quiet /\ ~isPlaying) => (currentStep' = currentStep /\ ~isPlaying')

\* C32: once playing is on and the user makes no further input, every tick
\* moves the cursor forward by one until it is on the last step, the tick
\* after that switches playing off and leaves the cursor there, and cursor
\* and playing then stay as they are; with fair ticks this point is reached.
\* A tick that finds the cursor on the last step (play pressed there) only
\* switches playing off.
C32_PlaysToTheEnd ==
  /\ [][C32_Step]_vars
  /\ []((quiet /\ ~isPlaying) => (Present /\ currentStep = LastStep))
  /\ (quiet /\ isPlaying) ~> (quiet /\ ~isPlaying /\ currentStep = LastStep)

\* playing has switched itself off on step 27 of the default expression
\* after the user's last input, which left playing on
C32_Witness ==
  /\ quiet
  /\ ~isPlaying
  /\ expression = DEFAULT_EXPRESSION
  /\ Len(result.steps) = 28
  /\ currentStep = 27

(* --------------------------- GeminiAssistant --------------------------- *)

\* result.text
ResponseText == "insight"

FetchFailed == "Failed to fetch AI explanation."

\* s without its k-th element
Without(s, k) == SubSeq(s, 1, k - 1) \o SubSeq(s, k + 1, Len(s))

\* Controls.tsx:111-120, 179-180: handleDeepDive up to the await; the button
\* is disabled while loading or without an API key, so the handler runs
\* with a key.
Ask ==
  /\ Interactive
  /\ Present
  /\ ~loading
  /\ Len(requests) < MaxInFlight
  /\ loading' = TRUE
  /\ aiError' = ""
  /\ requests' = Append(requests, [stale |-> FALSE])
  /\ UNCHANGED <<expression, mode, pc, tokens, i, operatorStack, outputQueue,
                 objs, steps, thrown, result, error, history, play, response>>

\* Controls.tsx:133-138, 142-144: the awaited promise fulfils
Resolve(k) ==
  /\ pc = "done"
  /\ k \in 1..Len(requests)
  /\ response' = ResponseText
  /\ loading' = FALSE
  /\ requests' = Without(requests, k)
  /\ UNCHANGED <<expression, mode, pc, tokens, i, operatorStack, outputQueue,
                 objs, steps, thrown, result, error, history, play, aiError>>

\* Controls.tsx:139-144: the awaited promise rejects
Reject(k) ==
  /\ pc = "done"
  /\ k \in 1..Len(requests)
  /\ aiError' = FetchFailed
  /\ loading' = FALSE
  /\ requests' = Without(requests, k)
  /\ UNCHANGED <<expression, mode, pc, tokens, i, operatorStack, outputQueue,
                 objs, steps, thrown, result, error, history, play, response>>

Settle ==
  \E k \in 1..MaxInFlight :
    \/ Resolve(k)
    \/ Reject(k)

NextPanel ==
  \/ Next
  \/ AppCatchKeep
  \/ ChangeExpression
  \/ ChangeToBlank
  \/ Tick
  \/ handlePlayPause
  \/ handleReset
  \/ handleStepForward
  \/ handleStepBack
  \/ Ask
  \/ Settle

SpecPanel == InitPlay /\ [][NextPanel]_vars

(* -------------------------------- C33 ---------------------------------- *)

PanelEmpty == response = "" /\ aiError = "" /\ ~loading

\* a request made before the last change of stepIndex or expression settles
StaleSettle ==
  \E k \in 1..Len(requests) :
    /\ requests[k].stale
    /\ Resolve(k) \/ Reject(k)

C33_ResetOnChange ==
  (currentStep' # currentStep \/ expression' # expression) => PanelEmpty'

C33_StaysEmptyUntilAsked == (PanelEmpty /\ ~Ask) => PanelEmpty'

C33_StaleInvisible == StaleSettle => UNCHANGED <<response, aiError, loading>>

C33_Isolated ==
  (Ask \/ Settle) => UNCHANGED <<result, error, currentStep, isPlaying,
                                 expression, steps, objs, tokens, pc>>

\* C33: a change of step index or expression empties response and error
\* and clears loading; they stay so until the user asks again; a request
\* sent for an earlier step or expression changes none of the three when it
\* settles; asking and settling leave the engine result and the cursor alone.
C33_PanelFollowsStep ==
  [][/\ C33_ResetOnChange
     /\ C33_StaysEmptyUntilAsked
     /\ C33_StaleInvisible
     /\ C33_Isolated]_vars

\* the parts of C33 that the panel keeps
C33_ResetAndIsolation == [][C33_ResetOnChange /\ C33_Isolated]_vars

====
